---- MODULE Spec2Model ----
(***************************************************************************)
(* A model of the sentineltest / wafguard HTTP test runner:                *)
(*   - the response validator (pkg/validator/response.go),                 *)
(*   - the per-test and per-suite reporter (internal/reporter/results.go), *)
(*   - the command line suite runner (cmd main: executeTests,              *)
(*     executeTestsSequentially, executeTestsConcurrently),                *)
(*   - the public client's runner (pkg/client/client.go: runTests).        *)
(*                                                                         *)
(* Strings are sequences of one-character strings, so that                 *)
(* strings.Contains is a real substring search.  Formatted messages are    *)
(* tuples <<kind, arguments...>>.  Wall-clock durations and timestamps     *)
(* are not modelled.                                                       *)
(***************************************************************************)
EXTENDS Integers, Sequences, FiniteSets, TLC

(***************************************************************************)
(* Bounds of the model.                                                    *)
(***************************************************************************)
\* longest response body drawn for the validator
MaxBodyLen == 2
\* how many times Validate is called on the same inputs
MaxCalls == 2
\* most suites given to one invocation
MaxSuites == 2
\* most tests of one invocation, over all its suites
MaxTests == 3
\* largest value of the --concurrent flag
MaxConcurrent == 2
\* the longest list handed to ValidateMultiple
MaxBatch == 2
\* the longest duration handed to GenerateTestReport, in milliseconds
MaxDuration == 2
\* fewest tests of a suite the parser lets through (Spec.Tests: validate min=1)
MinTests == 1

(***************************************************************************)
(* Strings.                                                                *)
(***************************************************************************)
Alphabet == {"a", "b"}

StringsUpTo(n) == UNION {[1..k -> Alphabet] : k \in 0..n}

\* strings.Contains(s, substr): substr occurs in s at some offset;
\* the empty string occurs in every string
StrContains(s, substr) ==
    \E i \in 0..(Len(s) - Len(substr)) : SubSeq(s, i + 1, i + Len(substr)) = substr

\* every enumeration without repetition of the finite set S
RECURSIVE Perms(_)
Perms(S) ==
    IF S = {} THEN {<<>>}
    ELSE UNION {{<<x>> \o p : p \in Perms(S \ {x})} : x \in S}

(***************************************************************************)
(* regexp.MatchString on a small sub-language of RE2: a pattern is a       *)
(* string of literals with an optional leading "^" and trailing "$";       *)
(* a "[" that is never closed does not compile.  A match is unanchored     *)
(* unless the pattern anchors it.                                          *)
(***************************************************************************)
\* as RegexCompiles, for a compiler that accepts every pattern
RegexAlwaysCompiles(pattern) == TRUE

RegexCompiles(pattern) == \A i \in 1..Len(pattern) : pattern[i] # "["

RegexMatch(pattern, s) ==
    LET atStart == Len(pattern) > 0 /\ pattern[1] = "^"
        atEnd   == Len(pattern) > 0 /\ pattern[Len(pattern)] = "$"
        lit     == SubSeq(pattern, (IF atStart THEN 2 ELSE 1),
                                   (IF atEnd THEN Len(pattern) - 1 ELSE Len(pattern)))
    IN  \E i \in 0..(Len(s) - Len(lit)) :
            /\ SubSeq(s, i + 1, i + Len(lit)) = lit
            /\ atStart => i = 0
            /\ atEnd => i + Len(lit) = Len(s)

(***************************************************************************)
(* The validator: pkg/validator/response.go                                *)
(***************************************************************************)
\* a nil *BodyExpected
NilBody == [Nil |-> TRUE, Exact |-> <<>>, Regex |-> <<>>,
            Contains |-> <<>>, NotContains |-> <<>>]

\* &ValidationResult{Passed: true, Errors: []string{}, Warnings: []string{}}
NewValidationResult == [Passed |-> TRUE, Errors |-> <<>>, Warnings |-> <<>>]

\* as validateStatusCode, comparing with the first expected status only
validateStatusCodeFirstOnly(response, expected, result) ==
    IF Len(expected.Status) = 0
    THEN [result EXCEPT !.Warnings = Append(@, <<"NoExpectedStatus">>)]
    ELSE IF response.StatusCode = expected.Status[1]
         THEN result
         ELSE [result EXCEPT !.Errors =
                  Append(@, <<"StatusMismatch", expected.Status, response.StatusCode>>)]

validateStatusCode(response, expected, result) ==
    IF Len(expected.Status) = 0
    THEN [result EXCEPT !.Warnings = Append(@, <<"NoExpectedStatus">>)]
    ELSE IF \E i \in 1..Len(expected.Status) : response.StatusCode = expected.Status[i]
         THEN result
         ELSE [result EXCEPT !.Errors =
                  Append(@, <<"StatusMismatch", expected.Status, response.StatusCode>>)]

\* as validateHeaderEntry, asking for an equal value instead of a substring
validateHeaderEntryEqual(response, expectedKey, expectedValue, result) ==
    IF expectedKey \notin DOMAIN response.Headers
    THEN [result EXCEPT !.Errors = Append(@, <<"MissingHeader", expectedKey>>)]
    ELSE IF response.Headers[expectedKey] # expectedValue
         THEN [result EXCEPT !.Errors =
                  Append(@, <<"HeaderMismatch", expectedKey, expectedValue,
                              response.Headers[expectedKey]>>)]
         ELSE result

\* one iteration of the loop over expected.Headers
validateHeaderEntry(response, expectedKey, expectedValue, result) ==
    IF expectedKey \notin DOMAIN response.Headers
    THEN [result EXCEPT !.Errors = Append(@, <<"MissingHeader", expectedKey>>)]
    ELSE IF ~StrContains(response.Headers[expectedKey], expectedValue)
         THEN [result EXCEPT !.Errors =
                  Append(@, <<"HeaderMismatch", expectedKey, expectedValue,
                              response.Headers[expectedKey]>>)]
         ELSE result

\* order: the order in which this run of the range loop visits the keys of
\* the map expected.Headers (Go leaves the iteration order of a map open)
RECURSIVE validateHeaders(_, _, _, _)
validateHeaders(response, expected, order, result) ==
    IF order = <<>> THEN result
    ELSE validateHeaders(response, expected, Tail(order),
             validateHeaderEntry(response, Head(order),
                                 expected.Headers[Head(order)], result))

\* as containsLoop, leaving the loop at the first entry that is missing
RECURSIVE containsLoopBreak(_, _, _)
containsLoopBreak(body, list, result) ==
    IF list = <<>> THEN result
    ELSE IF ~StrContains(body, Head(list))
         THEN [result EXCEPT !.Errors = Append(@, <<"BodyShouldContain", Head(list)>>)]
         ELSE containsLoopBreak(body, Tail(list), result)

RECURSIVE containsLoop(_, _, _)
containsLoop(body, list, result) ==
    IF list = <<>> THEN result
    ELSE containsLoop(body, Tail(list),
             IF ~StrContains(body, Head(list))
             THEN [result EXCEPT !.Errors = Append(@, <<"BodyShouldContain", Head(list)>>)]
             ELSE result)

RECURSIVE notContainsLoop(_, _, _)
notContainsLoop(body, list, result) ==
    IF list = <<>> THEN result
    ELSE notContainsLoop(body, Tail(list),
             IF StrContains(body, Head(list))
             THEN [result EXCEPT !.Errors = Append(@, <<"BodyShouldNotContain", Head(list)>>)]
             ELSE result)

\* as validateBody, with the contains and not-contains lists evaluated in
\* the exact and regex modes too
validateBodyNoPrecedence(response, expected, result) ==
    LET bodyExpected == expected.Body IN
    IF bodyExpected.Nil THEN result
    ELSE notContainsLoop(response.Body, bodyExpected.NotContains,
             containsLoop(response.Body, bodyExpected.Contains,
                 IF bodyExpected.Exact # <<>> /\ response.Body # bodyExpected.Exact
                 THEN [result EXCEPT !.Errors =
                          Append(@, <<"BodyExactMismatch", bodyExpected.Exact,
                                      response.Body>>)]
                 ELSE result))

validateBody(response, expected, result) ==
    LET bodyExpected == expected.Body IN
    IF bodyExpected.Nil THEN result
    ELSE IF bodyExpected.Exact # <<>>
    THEN IF response.Body # bodyExpected.Exact
         THEN [result EXCEPT !.Errors =
                  Append(@, <<"BodyExactMismatch", bodyExpected.Exact, response.Body>>)]
         ELSE result
    ELSE IF bodyExpected.Regex # <<>>
    THEN IF ~RegexCompiles(bodyExpected.Regex)
         THEN [result EXCEPT !.Errors = Append(@, <<"InvalidRegex", bodyExpected.Regex>>)]
         ELSE IF ~RegexMatch(bodyExpected.Regex, response.Body)
              THEN [result EXCEPT !.Errors =
                       Append(@, <<"BodyRegexMismatch", bodyExpected.Regex>>)]
              ELSE result
    ELSE notContainsLoop(response.Body, bodyExpected.NotContains,
             containsLoop(response.Body, bodyExpected.Contains, result))

\* as setPassed, but a warning fails the result too
setPassedOnWarnings(result) ==
    IF Len(result.Errors) > 0 \/ Len(result.Warnings) > 0
    THEN [result EXCEPT !.Passed = FALSE] ELSE result

\* the final "if len(result.Errors) > 0 { result.Passed = false }"
setPassed(result) ==
    IF Len(result.Errors) > 0 THEN [result EXCEPT !.Passed = FALSE] ELSE result

\* as Validate, returning after the first check that found an error
ValidateShortCircuit(response, expected, order) ==
    LET afterStatus  == validateStatusCode(response, expected, NewValidationResult)
        afterHeaders == validateHeaders(response, expected, order, afterStatus)
    IN  setPassed(IF afterStatus.Errors # <<>> THEN afterStatus
                  ELSE IF afterHeaders.Errors # <<>> THEN afterHeaders
                  ELSE validateBody(response, expected, afterHeaders))

Validate(response, expected, order) ==
    setPassed(
        validateBody(response, expected,
            validateHeaders(response, expected, order,
                validateStatusCode(response, expected, NewValidationResult))))

\* the orders in which the range loop of validateHeaders may visit the map
HeaderOrders(expected) == Perms(DOMAIN expected.Headers)

(***************************************************************************)
(* The reporter: internal/reporter/results.go                              *)
(***************************************************************************)
\* as GenerateTestReport, with the status taken from the error list
GenerateTestReportByErrors(testName, request, response, validation, duration) ==
    [TestName         |-> testName,
     Status           |-> IF validation.Errors # <<>> THEN "FAIL" ELSE "PASS",
     Duration         |-> duration,
     Request          |-> request,
     Response         |-> response,
     ValidationResult |-> validation]

GenerateTestReport(testName, request, response, validation, duration) ==
    [TestName         |-> testName,
     Status           |-> IF ~validation.Passed THEN "FAIL" ELSE "PASS",
     Duration         |-> duration,
     Request          |-> request,
     Response         |-> response,
     ValidationResult |-> validation]

\* the output stream after rep.PrintTestReport(report)
PrintTestReport(stream, report) == Append(stream, report)

RECURSIVE countPass(_)
countPass(testReports) ==
    IF testReports = <<>> THEN 0
    ELSE (IF Head(testReports).Status = "PASS" THEN 1 ELSE 0) + countPass(Tail(testReports))

\* as countNotPass, counting the reports whose status is "FAIL"
RECURSIVE countFail(_)
countFail(testReports) ==
    IF testReports = <<>> THEN 0
    ELSE (IF Head(testReports).Status = "FAIL" THEN 1 ELSE 0) + countFail(Tail(testReports))

RECURSIVE countNotPass(_)
countNotPass(testReports) ==
    IF testReports = <<>> THEN 0
    ELSE (IF Head(testReports).Status = "PASS" THEN 0 ELSE 1) + countNotPass(Tail(testReports))

GenerateSuiteReport(suiteName, testReports) ==
    [SuiteName   |-> suiteName,
     TotalTests  |-> Len(testReports),
     PassedTests |-> countPass(testReports),
     FailedTests |-> countNotPass(testReports),
     Tests       |-> testReports]

(***************************************************************************)
(* The parsed configuration: internal/core/config/types.go                 *)
(***************************************************************************)
HeaderKeys == {"X-A", "X-B"}

NoHeaders == [k \in {} |-> <<>>]

\* the expectation of the i-th test of a suite
ExpectedOf(i) ==
    IF i % 2 = 1
    THEN [Status |-> <<200>>, Headers |-> NoHeaders, Body |-> NilBody]
    ELSE [Status  |-> <<200>>,
          Headers |-> [k \in {"X-A"} |-> <<"a">>],
          Body    |-> [Nil |-> FALSE, Exact |-> <<>>, Regex |-> <<>>,
                       Contains |-> <<<<"a">>>>, NotContains |-> <<>>]]

\* config.Test
TestOf(s, i) ==
    [Name     |-> <<"test", s, i>>,
     Request  |-> [Method |-> "GET", Path |-> <<"path", s, i>>],
     Expected |-> ExpectedOf(i)]

\* config.SentinelTest with the given number of tests
SuiteOf(s, n) ==
    [Name    |-> <<"suite", s>>,
     BaseURL |-> <<"base", s>>,
     Tests   |-> [i \in 1..n |-> TestOf(s, i)]]

RECURSIVE SumSeq(_)
SumSeq(f) == IF f = <<>> THEN 0 ELSE Head(f) + SumSeq(Tail(f))

\* the numbers of tests of the suites of one invocation
SuiteShapes ==
    UNION {{f \in [1..k -> MinTests..MaxTests] : SumSeq(f) <= MaxTests} : k \in 1..MaxSuites}

\* the two meanings a build can give the range variable of the sequential
\* loop; executeTestsConcurrently hands each goroutine its own copy t of the
\* range variable, whatever the build
LoopVarSemantics(c) == IF c <= 1 THEN BOOLEAN ELSE {FALSE}

\* the values of the --concurrent flag
ConcurrentFlags == {-1} \cup (0..MaxConcurrent)

(***************************************************************************)
(* The executor, seen from its callers: a call of ExecuteTest or           *)
(* ExecuteTestWithContext blocks on the network and then returns either a  *)
(* response or an error.                                                   *)
(***************************************************************************)
RunnerResponses ==
    {[StatusCode |-> 200, Headers |-> [k \in {"X-A"} |-> <<"a", "b">>], Body |-> <<"a", "b">>],
     [StatusCode |-> 403, Headers |-> NoHeaders, Body |-> <<"b">>]}

\* time.Since(start) after a call of the executor, in milliseconds; no step
\* of the runners reads it
RunnerDurations == {1}

\* err.Error() of the errors ExecuteTest returns
ExecutorErrors == {<<"failed to build URL">>, <<"failed to execute request">>}

(***************************************************************************)
(* State.                                                                  *)
(***************************************************************************)
VARIABLES
    entry,        \* "cli": executeTests; "client": Client.runTests; "validate": Validate alone
    concurrent,   \* the --concurrent flag
    sharedLoopVar, \* the build gives a range loop one variable for all its iterations
    tests,        \* the suites handed to executeTests / the suite handed to runTests
    mpc,          \* where the main goroutine is
    si,           \* executeTests: index of the suite of the current iteration
    ti,           \* index of the test of the current iteration (sequential loop, spawn loop)
    reports,      \* the reports slice of the running executeTestsSequentially/Concurrently
    allReports,   \* executeTests: allReports
    printed,      \* the reports PrintTestReport has written, in order
    wpc,          \* executeTestsConcurrently: where each goroutine is
    wreport,      \* executeTestsConcurrently: the report each goroutine has built
    sem,          \* number of tokens in the semaphore channel
    mu,           \* the goroutine holding the mutex mu, 0 when it is free
    wg,           \* the WaitGroup's counter
    target,       \* history: per test, the base address its request was sent to
    attempts,     \* history: per test, how many executor calls were started for it
    outcome,      \* history: per test, what its executor call returned
    suiteReport,  \* executeTests: suiteReport, once generated
    exitCode,     \* the process exit status, -1 while running
    suitePrinted, \* executeTests: the suite report PrintSuiteReport has written
    ctxDone,      \* runTestsWithContext: the channel ctx.Done() is closed
    runErr,       \* runTestsWithContext: the returned error, NoReport for nil
    saved,        \* executeTests: what SaveSuiteReport did, "pending" before its call
    testResults,  \* Client.runTests: testResults
    suiteResult,  \* Client.runTests: the returned SuiteResult
    vResponse,    \* Validate alone: the response
    vExpected,    \* Validate alone: the expectation
    vResults,     \* Validate alone: the results of the calls made so far
    rReports,     \* GenerateSuiteReport alone: the list of test reports
    rSuite,       \* GenerateSuiteReport alone: the returned report
    mResponses,   \* ValidateMultiple alone: responses
    mExpected,    \* ValidateMultiple alone: expected
    mTestNames,   \* ValidateMultiple alone: testNames
    mResults,     \* ValidateMultiple alone: the elements of results set so far
    tArgs,        \* GenerateTestReport alone: the arguments
    tReport       \* GenerateTestReport alone: the returned report

cliVars == <<concurrent, sharedLoopVar, si, reports, allReports, printed, wpc, wreport, sem, mu, wg,
             suiteReport, exitCode, suitePrinted, saved>>
clientVars == <<testResults, suiteResult, ctxDone, runErr>>
validateVars == <<vResponse, vExpected, vResults>>
reporterVars == <<rReports, rSuite>>
multiVars == <<mResponses, mExpected, mTestNames, mResults>>
testReportVars == <<tArgs, tReport>>
vars == <<entry, tests, mpc, ti, attempts, target, outcome, cliVars, clientVars, validateVars,
          reporterVars, multiVars, testReportVars>>

NoReport == <<>>

\* values of the history variable outcome
NoOutcome == [kind |-> "none", err |-> <<>>]
ErrorOutcome(err) == [kind |-> "error", err |-> err]
ResponseOutcome == [kind |-> "response", err |-> <<>>]

\* the suite of the current iteration of executeTests' loop
sentinelTest == tests[si]

\* the tests of an invocation, as <<suite index, test index>>
TestIdsOf(suites) == UNION {{<<s, i>> : i \in DOMAIN suites[s].Tests} : s \in DOMAIN suites}

\* requests started and not yet returned
InFlight ==
    (IF mpc \in {"seqreq", "creq"} THEN 1 ELSE 0)
    + Cardinality({i \in DOMAIN wpc : wpc[i] = "inflight"})

(***************************************************************************)
(* Initial states.                                                         *)
(***************************************************************************)
InitIdle ==
    /\ ti = 1
    /\ si = 1
    /\ reports = <<>>
    /\ allReports = <<>>
    /\ printed = <<>>
    /\ wpc = <<>>
    /\ wreport = <<>>
    /\ sem = 0
    /\ mu = 0
    /\ wg = 0
    /\ suiteReport = NoReport
    /\ exitCode = -1
    /\ suitePrinted = NoReport
    /\ saved = "pending"
    /\ runErr = NoReport
    /\ testResults = <<>>
    /\ suiteResult = NoReport
    /\ vResults = <<>>
    /\ rSuite = NoReport
    /\ mResults = <<>>
    /\ tReport = NoReport

\* the command line: runTests has parsed the suites and calls executeTests
InitCli ==
    /\ entry = "cli"
    /\ concurrent \in ConcurrentFlags
    /\ sharedLoopVar \in LoopVarSemantics(concurrent)
    /\ \E shape \in SuiteShapes :
          tests = [s \in DOMAIN shape |-> SuiteOf(s, shape[s])]
    /\ mpc = "loop"

\* the client: RunTestFile has parsed one suite and calls runTests
InitClient ==
    /\ entry = "client"
    /\ concurrent = 1
    /\ sharedLoopVar = FALSE
    /\ \E n \in MinTests..MaxTests : tests = <<SuiteOf(1, n)>>
    /\ mpc = "cseq"

Init ==
    /\ InitCli \/ InitClient
    /\ attempts = [id \in TestIdsOf(tests) |-> 0]
    /\ target = [id \in TestIdsOf(tests) |-> NoReport]
    /\ outcome = [id \in TestIdsOf(tests) |-> NoOutcome]
    /\ vResponse = NoReport
    /\ vExpected = NoReport
    /\ rReports = <<>>
    /\ mResponses = <<>> /\ mExpected = <<>> /\ mTestNames = <<>>
    /\ tArgs = NoReport
    /\ ctxDone = FALSE
    /\ InitIdle

(***************************************************************************)
(* executeTests: cmd main, lines 138-181                                   *)
(***************************************************************************)
\* as UseSequential, with the flag value 1 sent to the concurrent branch
UseSequentialBelowOne(c) == c < 1

\* the test "concurrent <= 1" that chooses executeTestsSequentially
UseSequential(c) == c <= 1

\* one iteration of the loop over the suites begins, sequential branch
SuiteBeginSequential ==
    /\ entry = "cli" /\ mpc = "loop" /\ si <= Len(tests)
    /\ UseSequential(concurrent)
    /\ mpc' = "seq"
    /\ ti' = 1
    /\ reports' = <<>>
    /\ UNCHANGED <<entry, tests, attempts, target, outcome, concurrent, sharedLoopVar, si,
                   allReports, printed, wpc, wreport, sem, mu, wg, suiteReport, exitCode,
                   suitePrinted, saved, clientVars, validateVars, reporterVars, multiVars,
                   testReportVars>>

\* one iteration of the loop over the suites begins, concurrent branch:
\* executeTestsConcurrently makes its reports, mutex, WaitGroup and semaphore
SuiteBeginConcurrent ==
    /\ entry = "cli" /\ mpc = "loop" /\ si <= Len(tests)
    /\ ~UseSequential(concurrent)
    /\ mpc' = "spawn"
    /\ ti' = 1
    /\ reports' = <<>>
    /\ wpc' = [i \in DOMAIN sentinelTest.Tests |-> "idle"]
    /\ wreport' = [i \in DOMAIN sentinelTest.Tests |-> NoReport]
    /\ sem' = 0
    /\ mu' = 0
    /\ wg' = 0
    /\ UNCHANGED <<entry, tests, attempts, target, outcome, concurrent, sharedLoopVar, si,
                   allReports, printed, suiteReport, exitCode, suitePrinted, saved,
                   clientVars, validateVars, reporterVars, multiVars, testReportVars>>

\* as afterLoop, with the exit test moved before the print and the save
afterLoopExitFirst(pc) ==
    IF pc = "loop" THEN "printsuite"
    ELSE "exit"

\* the statements after the loop over the suites, in program order:
\* GenerateSuiteReport, PrintSuiteReport, SaveSuiteReport, the exit test
afterLoop(pc) ==
    IF pc = "loop" THEN "printsuite"
    ELSE IF pc = "printsuite" THEN "save"
    ELSE "exit"

\* what SaveSuiteReport does: nothing without an output file, else it writes
\* the file or returns an error, which executeTests only logs
SaveOutcomes == {"skipped", "ok", "error"}

\* after the loop: suiteReport := rep.GenerateSuiteReport("All Tests", ...)
FinishGenerate ==
    /\ entry = "cli" /\ mpc = "loop" /\ si > Len(tests)
    /\ suiteReport' = GenerateSuiteReport(<<"All Tests">>, allReports)
    /\ mpc' = afterLoop(mpc)
    /\ UNCHANGED <<entry, tests, ti, attempts, target, outcome, concurrent, sharedLoopVar,
                   si, reports, allReports, printed, wpc, wreport, sem, mu, wg, exitCode,
                   suitePrinted, saved, clientVars, validateVars, reporterVars, multiVars,
                   testReportVars>>

\* rep.PrintSuiteReport(suiteReport)
FinishPrint ==
    /\ entry = "cli" /\ mpc = "printsuite"
    /\ suitePrinted' = suiteReport
    /\ mpc' = afterLoop(mpc)
    /\ UNCHANGED <<entry, tests, ti, attempts, target, outcome, concurrent, sharedLoopVar,
                   si, reports, allReports, printed, wpc, wreport, sem, mu, wg, suiteReport,
                   exitCode, saved, clientVars, validateVars, reporterVars, multiVars,
                   testReportVars>>

\* rep.SaveSuiteReport(suiteReport); an error is logged and nothing else
FinishSave ==
    /\ entry = "cli" /\ mpc = "save"
    /\ saved' \in SaveOutcomes
    /\ mpc' = afterLoop(mpc)
    /\ UNCHANGED <<entry, tests, ti, attempts, target, outcome, concurrent, sharedLoopVar,
                   si, reports, allReports, printed, wpc, wreport, sem, mu, wg, suiteReport,
                   exitCode, suitePrinted, clientVars, validateVars, reporterVars,
                   multiVars, testReportVars>>

\* if suiteReport.FailedTests > 0 { os.Exit(1) }; return nil: the process
\* ends with status 1 or, through main, with status 0
FinishExit ==
    /\ entry = "cli" /\ mpc = "exit"
    /\ exitCode' = IF suiteReport.FailedTests > 0 THEN 1 ELSE 0
    /\ mpc' = "done"
    /\ UNCHANGED <<entry, tests, ti, attempts, target, outcome, concurrent, sharedLoopVar,
                   si, reports, allReports, printed, wpc, wreport, sem, mu, wg, suiteReport,
                   suitePrinted, saved, clientVars, validateVars, reporterVars, multiVars,
                   testReportVars>>

(***************************************************************************)
(* executeTestsSequentially: cmd main, lines 183-208                       *)
(***************************************************************************)
\* "for _, test := range sentinelTest.Spec.Tests" assigns the next test to
\* test.  Every report made so far by this loop holds &test.Request: where
\* the build gives the loop one variable for all iterations (the language
\* before Go 1.22, chosen by the go directive of go.mod) those pointers all
\* lead to the variable just assigned; where each iteration has its own
\* variable they are not touched.
rangeAssign(rs, request, shared) ==
    IF shared THEN [k \in DOMAIN rs |-> [rs[k] EXCEPT !.Request = request]] ELSE rs

\* the loop reaches a test and calls httpExecutor.ExecuteTest
SeqStartRequest ==
    /\ mpc = "seq" /\ ti <= Len(sentinelTest.Tests)
    /\ mpc' = "seqreq"
    /\ reports' = rangeAssign(reports, sentinelTest.Tests[ti].Request, sharedLoopVar)
    /\ attempts' = [attempts EXCEPT ![<<si, ti>>] = @ + 1]
    /\ target' = [target EXCEPT ![<<si, ti>>] = sentinelTest.BaseURL]
    /\ UNCHANGED <<entry, tests, ti, outcome, concurrent, sharedLoopVar, si, allReports,
                   printed, wpc, wreport, sem, mu, wg, suiteReport, exitCode, suitePrinted,
                   saved, clientVars, validateVars, reporterVars, multiVars, testReportVars>>

\* as seqContinue, for a loop that stops at the first failed request
seqBreak(i, n) == n + 1

\* where the loop goes after "continue" at test i of n
seqContinue(i, n) == i + 1

\* as seqAppendReport, putting the new report first
seqPrependReport(rs, report) == <<report>> \o rs

\* the slice after "reports = append(reports, *report)"
seqAppendReport(rs, report) == Append(rs, report)

\* ExecuteTest returns an error: it is logged and the loop continues
SeqRequestFails ==
    /\ mpc = "seqreq"
    /\ \E err \in ExecutorErrors :
          outcome' = [outcome EXCEPT ![<<si, ti>>] = ErrorOutcome(err)]
    /\ ti' = seqContinue(ti, Len(sentinelTest.Tests))
    /\ mpc' = "seq"
    /\ UNCHANGED <<entry, tests, attempts, target, cliVars, clientVars, validateVars,
                   reporterVars, multiVars, testReportVars>>

\* ExecuteTest returns a response: validate, report, append, print
SeqRequestReturns ==
    /\ mpc = "seqreq"
    /\ \E response \in RunnerResponses :
       LET test == sentinelTest.Tests[ti] IN
       \E order \in HeaderOrders(test.Expected) :
       LET validation == Validate(response, test.Expected, order)
       IN  \E duration \in RunnerDurations :
           LET report == GenerateTestReport(test.Name, test.Request, response,
                                            validation, duration)
           IN  /\ reports' = seqAppendReport(reports, report)
               /\ printed' = PrintTestReport(printed, report)
    /\ outcome' = [outcome EXCEPT ![<<si, ti>>] = ResponseOutcome]
    /\ ti' = ti + 1
    /\ mpc' = "seq"
    /\ UNCHANGED <<entry, tests, attempts, target, concurrent, sharedLoopVar, si,
                   allReports, wpc, wreport, sem, mu, wg, suiteReport, exitCode,
                   suitePrinted, saved, clientVars, validateVars, reporterVars, multiVars,
                   testReportVars>>

\* the loop is over: return reports; executeTests appends them to allReports
SeqReturn ==
    /\ mpc = "seq" /\ ti > Len(sentinelTest.Tests)
    /\ allReports' = allReports \o reports
    /\ si' = si + 1
    /\ mpc' = "loop"
    /\ UNCHANGED <<entry, tests, ti, attempts, target, outcome, concurrent, sharedLoopVar,
                   reports, printed, wpc, wreport, sem, mu, wg, suiteReport, exitCode,
                   suitePrinted, saved, clientVars, validateVars, reporterVars, multiVars,
                   testReportVars>>

(***************************************************************************)
(* executeTestsConcurrently: cmd main, lines 210-252                       *)
(***************************************************************************)
\* as SemaphoreHasRoom, with a buffer one too large
SemaphoreOneTooMany(tokens, maxConcurrent) == tokens <= maxConcurrent

\* "semaphore <- struct{}{}" can proceed: the channel's buffer has room
SemaphoreHasRoom(tokens, maxConcurrent) == tokens < maxConcurrent

\* as MutexFree, for a mutex that never blocks
MutexNeverHeld(holder) == TRUE

\* mu.Lock() can proceed
MutexFree(holder) == holder = 0

\* as AppendReport, with the update of a racing append lost: the new report
\* takes the last slot instead of a new one
AppendReportLosing(rs, report) ==
    IF rs = <<>> THEN <<report>> ELSE [rs EXCEPT ![Len(rs)] = report]

\* the slice after "reports = append(reports, *report)"
AppendReport(rs, report) == Append(rs, report)

\* the spawn loop: wg.Add(1); go func(t config.Test){...}(test)
Spawn ==
    /\ mpc = "spawn" /\ ti <= Len(sentinelTest.Tests)
    /\ wg' = wg + 1
    /\ wpc' = [wpc EXCEPT ![ti] = "acquire"]
    /\ ti' = ti + 1
    /\ UNCHANGED <<entry, tests, mpc, attempts, target, outcome, concurrent, sharedLoopVar,
                   si, reports, allReports, printed, wreport, sem, mu, suiteReport,
                   exitCode, suitePrinted, saved, clientVars, validateVars, reporterVars,
                   multiVars, testReportVars>>

\* goroutine i: semaphore <- struct{}{}, then the call of ExecuteTestWithContext
wAcquire(i) ==
    /\ wpc[i] = "acquire"
    /\ SemaphoreHasRoom(sem, concurrent)
    /\ sem' = sem + 1
    /\ wpc' = [wpc EXCEPT ![i] = "inflight"]
    /\ attempts' = [attempts EXCEPT ![<<si, i>>] = @ + 1]
    /\ target' = [target EXCEPT ![<<si, i>>] = sentinelTest.BaseURL]
    /\ UNCHANGED <<entry, tests, mpc, ti, outcome, concurrent, sharedLoopVar, si, reports,
                   allReports, printed, wreport, mu, wg, suiteReport, exitCode,
                   suitePrinted, saved, clientVars, validateVars, reporterVars, multiVars,
                   testReportVars>>

\* goroutine i: the call returns an error: log it and return
wRequestFails(i) ==
    /\ wpc[i] = "inflight"
    /\ \E err \in ExecutorErrors :
          outcome' = [outcome EXCEPT ![<<si, i>>] = ErrorOutcome(err)]
    /\ wpc' = [wpc EXCEPT ![i] = "return"]
    /\ UNCHANGED <<entry, tests, mpc, ti, attempts, target, concurrent, sharedLoopVar, si,
                   reports, allReports, printed, wreport, sem, mu, wg, suiteReport,
                   exitCode, suitePrinted, saved, clientVars, validateVars, reporterVars,
                   multiVars, testReportVars>>

\* goroutine i: the call returns a response: validate and build the report
wRequestReturns(i) ==
    /\ wpc[i] = "inflight"
    /\ \E response \in RunnerResponses :
       LET t == sentinelTest.Tests[i] IN
       \E order \in HeaderOrders(t.Expected) :
       LET validation == Validate(response, t.Expected, order) IN
       \E duration \in RunnerDurations :
       wreport' = [wreport EXCEPT ![i] =
                      GenerateTestReport(t.Name, t.Request, response, validation,
                                         duration)]
    /\ outcome' = [outcome EXCEPT ![<<si, i>>] = ResponseOutcome]
    /\ wpc' = [wpc EXCEPT ![i] = "lock"]
    /\ UNCHANGED <<entry, tests, mpc, ti, attempts, target, concurrent, sharedLoopVar, si,
                   reports, allReports, printed, sem, mu, wg, suiteReport, exitCode,
                   suitePrinted, saved, clientVars, validateVars, reporterVars, multiVars,
                   testReportVars>>

\* goroutine i: mu.Lock()
wLock(i) ==
    /\ wpc[i] = "lock"
    /\ MutexFree(mu)
    /\ mu' = i
    /\ wpc' = [wpc EXCEPT ![i] = "locked"]
    /\ UNCHANGED <<entry, tests, mpc, ti, attempts, target, outcome, concurrent,
                   sharedLoopVar, si, reports, allReports, printed, wreport, sem, wg,
                   suiteReport, exitCode, suitePrinted, saved, clientVars, validateVars,
                   reporterVars, multiVars, testReportVars>>

\* goroutine i: reports = append(reports, *report); mu.Unlock()
wAppendUnlock(i) ==
    /\ wpc[i] = "locked"
    /\ reports' = AppendReport(reports, wreport[i])
    /\ mu' = 0
    /\ wpc' = [wpc EXCEPT ![i] = "print"]
    /\ UNCHANGED <<entry, tests, mpc, ti, attempts, target, outcome, concurrent,
                   sharedLoopVar, si, allReports, printed, wreport, sem, wg, suiteReport,
                   exitCode, suitePrinted, saved, clientVars, validateVars, reporterVars,
                   multiVars, testReportVars>>

\* goroutine i: rep.PrintTestReport(report)
wPrint(i) ==
    /\ wpc[i] = "print"
    /\ printed' = PrintTestReport(printed, wreport[i])
    /\ wpc' = [wpc EXCEPT ![i] = "return"]
    /\ UNCHANGED <<entry, tests, mpc, ti, attempts, target, outcome, concurrent,
                   sharedLoopVar, si, reports, allReports, wreport, sem, mu, wg,
                   suiteReport, exitCode, suitePrinted, saved, clientVars, validateVars,
                   reporterVars, multiVars, testReportVars>>

\* as deferredReceive, for a goroutine that keeps its token
deferredKeep(tokens) == tokens

\* the tokens in the channel after the deferred "<-semaphore", which runs on
\* every return of the goroutine
deferredReceive(tokens) == tokens - 1

\* goroutine i returns: the deferred "<-semaphore", then the deferred wg.Done()
wReturn(i) ==
    /\ wpc[i] = "return"
    /\ sem' = deferredReceive(sem)
    /\ wg' = wg - 1
    /\ wpc' = [wpc EXCEPT ![i] = "done"]
    /\ UNCHANGED <<entry, tests, mpc, ti, attempts, target, outcome, concurrent,
                   sharedLoopVar, si, reports, allReports, printed, wreport, mu,
                   suiteReport, exitCode, suitePrinted, saved, clientVars, validateVars,
                   reporterVars, multiVars, testReportVars>>

\* as WaitGroupZero, for a wait that returns at once
WaitGroupNoWait(counter) == TRUE

\* wg.Wait() can return: the counter is back to zero
WaitGroupZero(counter) == counter = 0

\* wg.Wait() returns; return reports; executeTests appends them to allReports.
\* The goroutines are not touched by the return.
ConcReturn ==
    /\ mpc = "spawn" /\ ti > Len(sentinelTest.Tests)
    /\ WaitGroupZero(wg)
    /\ allReports' = allReports \o reports
    /\ si' = si + 1
    /\ mpc' = "loop"
    /\ UNCHANGED <<entry, tests, ti, attempts, target, outcome, concurrent, sharedLoopVar,
                   reports, printed, wpc, wreport, sem, mu, wg, suiteReport, exitCode,
                   suitePrinted, saved, clientVars, validateVars, reporterVars, multiVars,
                   testReportVars>>

(***************************************************************************)
(* Client.runTests: pkg/client/client.go, lines 136-181                    *)
(***************************************************************************)
\* as FailedTestResult, without the error message
FailedTestResultNoMessage(test, err) ==
    [TestName |-> test.Name, Passed |-> FALSE, Errors |-> <<>>, Warnings |-> <<>>]

\* the TestResult appended when ExecuteTest returned err
FailedTestResult(test, err) ==
    [TestName |-> test.Name, Passed |-> FALSE, Errors |-> <<err>>, Warnings |-> <<>>]

\* the TestResult appended after validation
ValidatedTestResult(test, validation) ==
    [TestName |-> test.Name, Passed |-> validation.Passed,
     Errors |-> validation.Errors, Warnings |-> validation.Warnings]

RECURSIVE countPassed(_)
countPassed(results) ==
    IF results = <<>> THEN 0
    ELSE (IF Head(results).Passed THEN 1 ELSE 0) + countPassed(Tail(results))

\* where the loop over the tests begins an iteration: runTestsWithContext
\* has its select there
loopHead == IF entry = "clientctx" THEN "cselect" ELSE "cseq"

\* the loop reaches a test and calls c.executor.ExecuteTest
ClientStartRequest ==
    /\ mpc = "cseq" /\ ti <= Len(tests[1].Tests)
    /\ mpc' = "creq"
    /\ attempts' = [attempts EXCEPT ![<<1, ti>>] = @ + 1]
    /\ target' = [target EXCEPT ![<<1, ti>>] = tests[1].BaseURL]
    /\ UNCHANGED <<entry, tests, ti, outcome, cliVars, clientVars, validateVars,
                   reporterVars, multiVars, testReportVars>>

\* where the loop goes after "continue" at test i of n
clientContinue(i, n) == i + 1

\* ExecuteTest returns an error: a failed TestResult is appended
ClientRequestFails ==
    /\ mpc = "creq"
    /\ \E err \in ExecutorErrors :
          /\ testResults' = Append(testResults, FailedTestResult(tests[1].Tests[ti], err))
          /\ outcome' = [outcome EXCEPT ![<<1, ti>>] = ErrorOutcome(err)]
    /\ ti' = clientContinue(ti, Len(tests[1].Tests))
    /\ mpc' = loopHead
    /\ UNCHANGED <<entry, tests, attempts, target, cliVars, suiteResult, ctxDone, runErr,
                   validateVars, reporterVars, multiVars, testReportVars>>

\* ExecuteTest returns a response: validate and append the TestResult
ClientRequestReturns ==
    /\ mpc = "creq"
    /\ \E response \in RunnerResponses :
       LET test == tests[1].Tests[ti] IN
       \E order \in HeaderOrders(test.Expected) :
          testResults' = Append(testResults,
              ValidatedTestResult(test, Validate(response, test.Expected, order)))
    /\ outcome' = [outcome EXCEPT ![<<1, ti>>] = ResponseOutcome]
    /\ ti' = ti + 1
    /\ mpc' = loopHead
    /\ UNCHANGED <<entry, tests, attempts, target, cliVars, suiteResult, ctxDone, runErr,
                   validateVars, reporterVars, multiVars, testReportVars>>

\* the loop is over: the summary is computed and returned
ClientReturn ==
    /\ mpc = loopHead /\ ti > Len(tests[1].Tests)
    /\ suiteResult' = [SuiteName   |-> tests[1].Name,
                       TotalTests  |-> Len(testResults),
                       PassedTests |-> countPassed(testResults),
                       FailedTests |-> Len(testResults) - countPassed(testResults),
                       TestResults |-> testResults]
    /\ mpc' = "done"
    /\ UNCHANGED <<entry, tests, ti, attempts, target, outcome, cliVars, testResults,
                   ctxDone, runErr, validateVars, reporterVars, multiVars, testReportVars>>

(***************************************************************************)
(* The specification of the runners.                                       *)
(***************************************************************************)
Next ==
    \/ SuiteBeginSequential
    \/ SuiteBeginConcurrent
    \/ SeqStartRequest
    \/ SeqRequestFails
    \/ SeqRequestReturns
    \/ SeqReturn
    \/ Spawn
    \/ \E i \in DOMAIN wpc : wAcquire(i)
    \/ \E i \in DOMAIN wpc : wRequestFails(i)
    \/ \E i \in DOMAIN wpc : wRequestReturns(i)
    \/ \E i \in DOMAIN wpc : wLock(i)
    \/ \E i \in DOMAIN wpc : wAppendUnlock(i)
    \/ \E i \in DOMAIN wpc : wPrint(i)
    \/ \E i \in DOMAIN wpc : wReturn(i)
    \/ ConcReturn
    \/ FinishGenerate
    \/ FinishPrint
    \/ FinishSave
    \/ FinishExit
    \/ ClientStartRequest
    \/ ClientRequestFails
    \/ ClientRequestReturns
    \/ ClientReturn

Spec == Init /\ [][Next]_vars

\* A command line run of one suite in bounded-parallel mode.
InitLive ==
    /\ Init
    /\ entry = "cli"
    /\ ~UseSequential(concurrent)
    /\ Len(tests) = 1

NextLive ==
    \/ SuiteBeginConcurrent
    \/ Spawn
    \/ \E i \in DOMAIN wpc : wAcquire(i)
    \/ \E i \in DOMAIN wpc : wRequestFails(i)
    \/ \E i \in DOMAIN wpc : wRequestReturns(i)
    \/ \E i \in DOMAIN wpc : wLock(i)
    \/ \E i \in DOMAIN wpc : wAppendUnlock(i)
    \/ \E i \in DOMAIN wpc : wPrint(i)
    \/ \E i \in DOMAIN wpc : wReturn(i)
    \/ ConcReturn
    \/ FinishGenerate
    \/ FinishPrint
    \/ FinishSave
    \/ FinishExit

\* The Go scheduler runs a goroutine that can run, and a request that was
\* sent returns a response or an error: some enabled step is taken.
LiveSpec == InitLive /\ [][NextLive]_vars /\ WF_vars(NextLive)

(***************************************************************************)
(* Client.runTestsWithContext: pkg/client/client.go, lines 184-235.  Its   *)
(* loop is the loop of runTests with a select on ctx.Done() in front of    *)
(* each iteration; the context may be cancelled at any moment, also before *)
(* the call.                                                               *)
(***************************************************************************)
\* ctx.Err() of a cancelled context
ContextCanceled == <<"context canceled">>

InitContext ==
    /\ entry = "clientctx"
    /\ concurrent = 1
    /\ sharedLoopVar = FALSE
    /\ \E n \in MinTests..MaxTests : tests = <<SuiteOf(1, n)>>
    /\ mpc = "cselect"
    /\ attempts = [id \in TestIdsOf(tests) |-> 0]
    /\ target = [id \in TestIdsOf(tests) |-> NoReport]
    /\ outcome = [id \in TestIdsOf(tests) |-> NoOutcome]
    /\ vResponse = NoReport
    /\ vExpected = NoReport
    /\ rReports = <<>>
    /\ mResponses = <<>> /\ mExpected = <<>> /\ mTestNames = <<>>
    /\ tArgs = NoReport
    /\ ctxDone \in BOOLEAN
    /\ InitIdle

\* the caller, or a deadline, cancels the context
CtxCancel ==
    /\ entry = "clientctx" /\ mpc # "done"
    /\ ~ctxDone
    /\ ctxDone' = TRUE
    /\ UNCHANGED <<entry, tests, mpc, ti, attempts, target, outcome, cliVars, testResults,
                   suiteResult, runErr, validateVars, reporterVars, multiVars,
                   testReportVars>>

\* as SelectDone, for a select that always takes its default case
SelectNeverDone(done) == FALSE

\* "case <-ctx.Done()" is taken: a select takes its default case only when
\* no other case is ready
SelectDone(done) == done

\* the select finds ctx.Done() closed: return nil, ctx.Err()
CtxSelectDone ==
    /\ entry = "clientctx" /\ mpc = "cselect" /\ ti <= Len(tests[1].Tests)
    /\ SelectDone(ctxDone)
    /\ runErr' = ContextCanceled
    /\ mpc' = "done"
    /\ UNCHANGED <<entry, tests, ti, attempts, target, outcome, cliVars, testResults,
                   suiteResult, ctxDone, validateVars, reporterVars, multiVars,
                   testReportVars>>

\* the select takes its default case: the iteration goes on
CtxSelectDefault ==
    /\ entry = "clientctx" /\ mpc = "cselect" /\ ti <= Len(tests[1].Tests)
    /\ ~SelectDone(ctxDone)
    /\ mpc' = "cseq"
    /\ UNCHANGED <<entry, tests, ti, attempts, target, outcome, cliVars, clientVars,
                   validateVars, reporterVars, multiVars, testReportVars>>

NextContext ==
    \/ CtxCancel
    \/ CtxSelectDone
    \/ CtxSelectDefault
    \/ ClientStartRequest
    \/ ClientRequestFails
    \/ ClientRequestReturns
    \/ ClientReturn

SpecContext == InitContext /\ [][NextContext]_vars

(***************************************************************************)
(* Client.RunTestDirectory: pkg/client/client.go, lines 92-123.  The       *)
(* parsed suites are combined into one, which is handed to runTests.       *)
(***************************************************************************)
\* allTests = append(allTests, wafTest.Spec.Tests...) over the suites
RECURSIVE allTests(_)
allTests(wafTests) ==
    IF wafTests = <<>> THEN <<>>
    ELSE Head(wafTests).Tests \o allTests(Tail(wafTests))

combinedTest(wafTests) ==
    [Name    |-> <<"Combined Tests">>,
     BaseURL |-> wafTests[1].BaseURL,
     Tests   |-> allTests(wafTests)]

\* ParseDirectory has returned the suites of the directory's files, none
\* for a directory without test files
InitDirectory ==
    /\ entry = "directory"
    /\ concurrent = 1
    /\ sharedLoopVar = FALSE
    /\ \E shape \in SuiteShapes \cup {<<>>} :
          tests = [s \in DOMAIN shape |-> SuiteOf(s, shape[s])]
    /\ mpc = "combine"
    /\ attempts = <<>>
    /\ target = <<>>
    /\ outcome = <<>>
    /\ vResponse = NoReport
    /\ vExpected = NoReport
    /\ rReports = <<>>
    /\ mResponses = <<>> /\ mExpected = <<>> /\ mTestNames = <<>>
    /\ tArgs = NoReport
    /\ ctxDone = FALSE
    /\ InitIdle

\* len(wafTests) == 0: return &SuiteResult{SuiteName: "Empty Directory"}
RunTestDirectoryEmpty ==
    /\ entry = "directory" /\ mpc = "combine"
    /\ Len(tests) = 0
    /\ suiteResult' = [SuiteName   |-> <<"Empty Directory">>,
                       TotalTests  |-> 0,
                       PassedTests |-> 0,
                       FailedTests |-> 0,
                       TestResults |-> <<>>]
    /\ mpc' = "done"
    /\ UNCHANGED <<entry, tests, ti, attempts, target, outcome, cliVars, testResults,
                   ctxDone, runErr, validateVars, reporterVars, multiVars, testReportVars>>

\* return c.runTests(combinedTest)
RunTestDirectoryCombined ==
    /\ entry = "directory" /\ mpc = "combine"
    /\ Len(tests) # 0
    /\ tests' = <<combinedTest(tests)>>
    /\ attempts' = [id \in TestIdsOf(tests') |-> 0]
    /\ target' = [id \in TestIdsOf(tests') |-> NoReport]
    /\ outcome' = [id \in TestIdsOf(tests') |-> NoOutcome]
    /\ mpc' = "cseq"
    /\ UNCHANGED <<entry, ti, cliVars, clientVars, validateVars, reporterVars, multiVars,
                   testReportVars>>

NextDirectory ==
    \/ RunTestDirectoryEmpty
    \/ RunTestDirectoryCombined
    \/ ClientStartRequest
    \/ ClientRequestFails
    \/ ClientRequestReturns
    \/ ClientReturn

SpecDirectory == InitDirectory /\ [][NextDirectory]_vars

(***************************************************************************)
(* Validate on its own: the inputs are drawn in the initial state and the  *)
(* function is called on them up to MaxCalls times.                        *)
(***************************************************************************)
\* every map from a subset of the keys to the values
MapsOver(keys, values) == UNION {[d -> values] : d \in SUBSET keys}

ValidateStatusCodes == {200, 404}

ExpectedStatusChoices == {<<>>, <<200>>, <<201, 200>>}

ResponseHeaderChoices == MapsOver(HeaderKeys, {<<"a", "b">>})

ExpectedHeaderChoices == MapsOver(HeaderKeys, {<<"b">>, <<"b", "a">>, <<"B">>})

ExactChoices == {<<>>, <<"a", "b">>}

RegexChoices == {<<>>, <<"^", "b">>, <<"[">>}

ContainsChoices == {<<>>, << <<"a">>, <<"b", "b">> >>}

NotContainsChoices == {<<>>, << <<"b">>, <<"a">> >>}

BodyExpectedChoices ==
    {NilBody} \cup
    [Nil : {FALSE}, Exact : ExactChoices, Regex : RegexChoices,
     Contains : ContainsChoices, NotContains : NotContainsChoices]

InitValidate ==
    /\ entry = "validate"
    /\ concurrent = 1
    /\ sharedLoopVar = FALSE
    /\ tests = <<>>
    /\ mpc = "validate"
    /\ attempts = <<>>
    /\ target = <<>>
    /\ outcome = <<>>
    /\ vResponse \in [StatusCode : ValidateStatusCodes,
                      Headers    : ResponseHeaderChoices,
                      Body       : StringsUpTo(MaxBodyLen)]
    /\ vExpected \in [Status  : ExpectedStatusChoices,
                      Headers : ExpectedHeaderChoices,
                      Body    : BodyExpectedChoices]
    /\ rReports = <<>>
    /\ mResponses = <<>> /\ mExpected = <<>> /\ mTestNames = <<>>
    /\ tArgs = NoReport
    /\ ctxDone = FALSE
    /\ InitIdle

\* one call of Validate on the drawn inputs
CallValidate ==
    /\ entry = "validate"
    /\ Len(vResults) < MaxCalls
    /\ \E order \in HeaderOrders(vExpected) :
          vResults' = Append(vResults, Validate(vResponse, vExpected, order))
    /\ UNCHANGED <<entry, tests, mpc, ti, attempts, target, outcome, cliVars, clientVars,
                   vResponse, vExpected, reporterVars, multiVars, testReportVars>>

NextValidate == CallValidate

SpecValidate == InitValidate /\ [][NextValidate]_vars

(***************************************************************************)
(* GenerateSuiteReport on its own: a list of test reports is drawn in the  *)
(* initial state and the function is called on it once.                    *)
(***************************************************************************)
\* values of TestReport.Status: the two GenerateTestReport writes, and one
\* more, the field being a plain string
ReportStatuses == {"PASS", "FAIL", "SKIP"}

ReportNames == {<<"test", 1, 1>>, <<"test", 1, 2>>}

\* test reports, cut down to the fields GenerateSuiteReport reads
ReportChoices == [TestName : ReportNames, Status : ReportStatuses]

InitReporter ==
    /\ entry = "reporter"
    /\ concurrent = 1
    /\ sharedLoopVar = FALSE
    /\ tests = <<>>
    /\ mpc = "report"
    /\ attempts = <<>>
    /\ target = <<>>
    /\ outcome = <<>>
    /\ vResponse = NoReport
    /\ vExpected = NoReport
    /\ \E n \in 0..MaxTests : rReports \in [1..n -> ReportChoices]
    /\ mResponses = <<>> /\ mExpected = <<>> /\ mTestNames = <<>>
    /\ tArgs = NoReport
    /\ ctxDone = FALSE
    /\ InitIdle

\* the call of GenerateSuiteReport on the drawn list
CallGenerateSuiteReport ==
    /\ entry = "reporter" /\ mpc = "report"
    /\ rSuite' = GenerateSuiteReport(<<"suite">>, rReports)
    /\ mpc' = "done"
    /\ UNCHANGED <<entry, tests, ti, attempts, target, outcome, cliVars, clientVars,
                   validateVars, rReports, multiVars, testReportVars>>

NextReporter == CallGenerateSuiteReport

SpecReporter == InitReporter /\ [][NextReporter]_vars

(***************************************************************************)
(* ValidateMultiple on its own: pkg/validator/response.go, lines 161-172.  *)
(* The three lists are drawn in the initial state, each with its own       *)
(* length.                                                                 *)
(***************************************************************************)
BatchExpected == {ExpectedOf(1), ExpectedOf(2)}

\* as MismatchedLengths, without the comparison with len(testNames)
MismatchedLengthsNoNames(responses, expected, testNames) ==
    Len(responses) # Len(expected)

\* len(responses) != len(expected) || len(responses) != len(testNames)
MismatchedLengths(responses, expected, testNames) ==
    Len(responses) # Len(expected) \/ Len(responses) # Len(testNames)

InitValidateMultiple ==
    /\ entry = "batch"
    /\ concurrent = 1
    /\ sharedLoopVar = FALSE
    /\ tests = <<>>
    /\ mpc = "vmcheck"
    /\ attempts = <<>>
    /\ target = <<>>
    /\ outcome = <<>>
    /\ vResponse = NoReport
    /\ vExpected = NoReport
    /\ rReports = <<>>
    /\ \E n \in 0..MaxBatch : mResponses \in [1..n -> RunnerResponses]
    /\ \E n \in 0..MaxBatch : mExpected \in [1..n -> BatchExpected]
    /\ \E n \in 0..MaxBatch : mTestNames = [i \in 1..n |-> TestOf(1, i).Name]
    /\ tArgs = NoReport
    /\ ctxDone = FALSE
    /\ InitIdle

\* the lengths differ: panic("mismatched lengths in ValidateMultiple")
ValidateMultiplePanics ==
    /\ entry = "batch" /\ mpc = "vmcheck"
    /\ MismatchedLengths(mResponses, mExpected, mTestNames)
    /\ mpc' = "panic"
    /\ UNCHANGED <<entry, tests, ti, attempts, target, outcome, cliVars, clientVars,
                   validateVars, reporterVars, multiVars, testReportVars>>

\* the lengths agree: results is made and the loop is entered
ValidateMultipleBegins ==
    /\ entry = "batch" /\ mpc = "vmcheck"
    /\ ~MismatchedLengths(mResponses, mExpected, mTestNames)
    /\ mpc' = "vmloop"
    /\ UNCHANGED <<entry, tests, ti, attempts, target, outcome, cliVars, clientVars,
                   validateVars, reporterVars, multiVars, testReportVars>>

\* one iteration: results[i] = v.Validate(responses[i], expected[i], testNames[i]);
\* the label is only logged
ValidateMultipleStep ==
    /\ entry = "batch" /\ mpc = "vmloop"
    /\ Len(mResults) < Len(mResponses)
    /\ LET i == Len(mResults) + 1 IN
       \E order \in HeaderOrders(mExpected[i]) :
          mResults' = Append(mResults, Validate(mResponses[i], mExpected[i], order))
    /\ UNCHANGED <<entry, tests, mpc, ti, attempts, target, outcome, cliVars, clientVars,
                   validateVars, reporterVars, mResponses, mExpected, mTestNames,
                   testReportVars>>

\* the loop is over: return results
ValidateMultipleReturns ==
    /\ entry = "batch" /\ mpc = "vmloop"
    /\ Len(mResults) = Len(mResponses)
    /\ mpc' = "done"
    /\ UNCHANGED <<entry, tests, ti, attempts, target, outcome, cliVars, clientVars,
                   validateVars, reporterVars, multiVars, testReportVars>>

NextValidateMultiple ==
    \/ ValidateMultiplePanics
    \/ ValidateMultipleBegins
    \/ ValidateMultipleStep
    \/ ValidateMultipleReturns

SpecValidateMultiple == InitValidateMultiple /\ [][NextValidateMultiple]_vars

(***************************************************************************)
(* GenerateTestReport on its own: internal/reporter/results.go, lines      *)
(* 48-63.  The arguments are drawn in the initial state.                   *)
(***************************************************************************)
\* validation results as a caller may hand them over: the function reads the
\* field Passed only, whatever the lists hold
ValidationChoices ==
    [Passed   : BOOLEAN,
     Errors   : {<<>>, << <<"MissingHeader", "X-A">> >>},
     Warnings : {<<>>, << <<"NoExpectedStatus">> >>}]

InitTestReport ==
    /\ entry = "testreport"
    /\ concurrent = 1
    /\ sharedLoopVar = FALSE
    /\ tests = <<>>
    /\ mpc = "testreport"
    /\ attempts = <<>>
    /\ target = <<>>
    /\ outcome = <<>>
    /\ vResponse = NoReport
    /\ vExpected = NoReport
    /\ rReports = <<>>
    /\ mResponses = <<>> /\ mExpected = <<>> /\ mTestNames = <<>>
    /\ tArgs \in [testName   : ReportNames,
                  request    : {TestOf(1, 1).Request, TestOf(1, 2).Request},
                  response   : RunnerResponses,
                  validation : ValidationChoices,
                  duration   : 0..MaxDuration]
    /\ ctxDone = FALSE
    /\ InitIdle

\* the call of GenerateTestReport on the drawn arguments
CallGenerateTestReport ==
    /\ entry = "testreport" /\ mpc = "testreport"
    /\ tReport' = GenerateTestReport(tArgs.testName, tArgs.request, tArgs.response,
                                     tArgs.validation, tArgs.duration)
    /\ mpc' = "done"
    /\ UNCHANGED <<entry, tests, ti, attempts, target, outcome, cliVars, clientVars,
                   validateVars, reporterVars, multiVars, tArgs>>

NextTestReport == CallGenerateTestReport

SpecTestReport == InitTestReport /\ [][NextTestReport]_vars

(***************************************************************************)
(* Properties.                                                             *)
(***************************************************************************)
\* the test a report or result is about, as <<suite index, test index>>
IdOfName(name) == <<name[2], name[3]>>

NameOfId(id) == tests[id[1]].Tests[id[2]].Name

\* test a comes before test b in the input
Precedes(a, b) == a[1] < b[1] \/ (a[1] = b[1] /\ a[2] < b[2])

\* the entries of rs follow the input order of their tests
InInputOrder(rs) ==
    \A a, b \in DOMAIN rs :
        a < b => Precedes(IdOfName(rs[a].TestName), IdOfName(rs[b].TestName))

HasReport(rs, id) == \E k \in DOMAIN rs : rs[k].TestName = NameOfId(id)

HasFailedReport(rs, id) ==
    \E k \in DOMAIN rs : rs[k].TestName = NameOfId(id) /\ rs[k].Status = "FAIL"

\* executeTestsConcurrently is about to return: every goroutine was started
\* and wg.Wait() no longer blocks
ConcAboutToReturn ==
    /\ entry = "cli" /\ concurrent > 1
    /\ mpc = "spawn" /\ ti > Len(tests[si].Tests) /\ wg = 0

\* the goroutines that hold the mutex, between mu.Lock() and mu.Unlock()
Appending == {i \in DOMAIN wpc : wpc[i] = "locked"}

\* the errors of a result that one of the checks wrote, in the result's order
ErrorsOfKind(result, kinds) == SelectSeq(result.Errors, LAMBDA e : e[1] \in kinds)

StatusErrorKinds == {"StatusMismatch"}

HeaderErrorKinds == {"MissingHeader", "HeaderMismatch"}

BodyErrorKinds == {"BodyExactMismatch", "InvalidRegex", "BodyRegexMismatch",
                   "BodyShouldContain", "BodyShouldNotContain"}

\* the elements of a sequence
Range(f) == {f[i] : i \in DOMAIN f}

\* C1: every result of Validate has Passed = true exactly when its error list
\* is empty, whatever its warnings are.
C1_PassedIffNoErrors ==
    \A k \in DOMAIN vResults :
        vResults[k].Passed <=> (Len(vResults[k].Errors) = 0)

\* a call returned a result that passed and carries a warning
C1_Witness ==
    \E k \in DOMAIN vResults :
        vResults[k].Passed /\ Len(vResults[k].Warnings) > 0

\* C2: in bounded-parallel mode the number of requests in flight never
\* exceeds the concurrency limit.
C2_InFlightBounded ==
    (entry = "cli" /\ concurrent > 1) => InFlight <= concurrent

\* the gate is full and a goroutine waits at it
C2_Witness ==
    /\ entry = "cli" /\ concurrent > 1
    /\ InFlight = concurrent
    /\ \E i \in DOMAIN wpc : wpc[i] = "acquire"

\* C3: a concurrent run of N tests with limit N whose requests all succeed
\* returns exactly N reports carrying the N names of the suite's tests.
C3_NoOutcomeLost ==
    (/\ ConcAboutToReturn
     /\ concurrent = Len(tests[si].Tests)
     /\ \A i \in DOMAIN tests[si].Tests : outcome[<<si, i>>].kind = "response")
    => /\ Len(reports) = Len(tests[si].Tests)
       /\ {reports[k].TestName : k \in DOMAIN reports}
            = {tests[si].Tests[i].Name : i \in DOMAIN tests[si].Tests}

\* such a run of at least two tests is about to return
C3_Witness ==
    /\ ConcAboutToReturn
    /\ concurrent = Len(tests[si].Tests)
    /\ \A i \in DOMAIN tests[si].Tests : outcome[<<si, i>>].kind = "response"

\* C4: at most one goroutine is between mu.Lock() and mu.Unlock(), every
\* change of the shared reports slice is made by the goroutine holding the
\* mutex, and the main goroutine takes the slice only when all are done.
C4_AppendsUnderMutex ==
    [][/\ Cardinality(Appending') <= 1
       /\ \A i \in Appending' : mu' = i
       /\ (mpc = "spawn" /\ reports' # reports)
            => (mu # 0 /\ wpc[mu] = "locked" /\ wpc'[mu] = "print")
       /\ (mpc = "spawn" /\ mpc' # "spawn")
            => \A i \in DOMAIN wpc : wpc[i] = "done"]_vars

\* one goroutine holds the mutex while another waits for it
C4_Witness ==
    \E i, j \in DOMAIN wpc : wpc[i] = "locked" /\ wpc[j] = "lock"

\* C5: in sequential mode a test whose request fails is recorded as a failed
\* outcome and the run goes on, so that the summary counts every test of
\* the run (test 1 unreachable, test 2 passing: total 2, passed 1, failed 1).
C5_SeqFailureRecorded ==
    (entry = "cli" /\ concurrent <= 1 /\ mpc = "done")
    => /\ suiteReport.TotalTests = Cardinality(DOMAIN outcome)
       /\ \A id \in DOMAIN outcome :
             /\ attempts[id] = 1
             /\ outcome[id].kind = "error" => HasFailedReport(suiteReport.Tests, id)

\* C6: in bounded-parallel mode a test whose request fails contributes one
\* failed outcome, so that the returned collection holds one outcome per
\* scheduled test.
C6_ConcFailureRecorded ==
    ConcAboutToReturn
    => /\ Len(reports) = Len(tests[si].Tests)
       /\ \A i \in DOMAIN tests[si].Tests :
             outcome[<<si, i>>].kind = "error" => HasFailedReport(reports, <<si, i>>)

\* C7: Client.runTests returns one TestResult per test, in input order; the
\* result of a test whose request failed has Passed = false and exactly the
\* error's message as its errors; TotalTests is the number of tests.
C7_ClientOneResultPerTest ==
    (entry = "client" /\ mpc = "done")
    => /\ Len(suiteResult.TestResults) = Len(tests[1].Tests)
       /\ suiteResult.TotalTests = Len(tests[1].Tests)
       /\ \A k \in DOMAIN tests[1].Tests :
             /\ suiteResult.TestResults[k].TestName = tests[1].Tests[k].Name
             /\ outcome[<<1, k>>].kind = "error"
                  => /\ ~suiteResult.TestResults[k].Passed
                     /\ suiteResult.TestResults[k].Errors = <<outcome[<<1, k>>].err>>

\* runTests has returned for a suite in which a request failed and a later
\* one got its response
C7_Witness ==
    /\ entry = "client" /\ mpc = "done"
    /\ \E j, k \in DOMAIN tests[1].Tests :
          /\ j < k
          /\ outcome[<<1, j>>].kind = "error"
          /\ outcome[<<1, k>>].kind = "response"

\* C8: no failure of a test aborts the run: no test's request is started
\* twice, and when the run has produced its summary every test's request
\* was started exactly once (sequential, bounded-parallel and client runs).
C8_EveryTestAttemptedOnce ==
    /\ \A id \in DOMAIN attempts : attempts[id] <= 1
    /\ mpc = "done" => \A id \in DOMAIN attempts : attempts[id] = 1

\* a command line run has ended in which a request failed before the last
\* test and a validation failed
C8_Witness ==
    /\ entry = "cli" /\ mpc = "done"
    /\ \E a, b \in DOMAIN outcome : Precedes(a, b) /\ outcome[a].kind = "error"
    /\ \E k \in DOMAIN allReports : allReports[k].Status = "FAIL"

\* C9: in sequential mode the reports of the running suite, the reports
\* gathered so far and the printed reports all follow the input order of
\* their tests, and so do the client's results.
C9_SequentialInputOrder ==
    /\ (entry = "cli" /\ concurrent <= 1)
         => /\ InInputOrder(reports)
            /\ InInputOrder(allReports)
            /\ InInputOrder(printed)
    /\ entry = "client" => InInputOrder(testResults)

\* a sequential run has ended with at least two reports and a failed request
C9_Witness ==
    /\ entry = "cli" /\ concurrent <= 1 /\ mpc = "done"
    /\ Len(allReports) >= 2
    /\ Len(printed) >= 2
    /\ \E id \in DOMAIN outcome : outcome[id].kind = "error"

\* test id has been fully processed by the sequential loop
SeqProcessed(id) ==
    \/ outcome[id].kind = "error"
    \/ /\ outcome[id].kind = "response"
       /\ HasReport(printed, id)
       /\ HasReport(reports, id) \/ HasReport(allReports, id)

\* C10: with concurrent <= 1 the sequential branch runs: no goroutine
\* exists, at most one request is in flight, and a test's request is
\* started only when every earlier test has been fully processed; with
\* concurrent > 1 the sequential loop never runs.
C10_SequentialMode ==
    entry = "cli"
    => /\ concurrent <= 1
            => /\ mpc # "spawn"
               /\ wpc = <<>>
               /\ InFlight <= 1
               /\ \A a, b \in DOMAIN attempts :
                     (Precedes(a, b) /\ attempts[b] > 0) => SeqProcessed(a)
       /\ concurrent > 1 => mpc \notin {"seq", "seqreq"}

\* with the flag at 0 or below, the request of a second test is in flight
C10_Witness ==
    /\ entry = "cli" /\ concurrent <= 0
    /\ mpc = "seqreq" /\ ti >= 2

\* C11: in bounded-parallel mode, whenever the main goroutine is outside
\* executeTestsConcurrently (it has returned the collection, or computes the
\* suite summary) every goroutine it started has finished, the WaitGroup is
\* at zero and the mutex is free; and no step taken while it is outside
\* changes the returned collection.
C11_ReturnAfterAllWorkers ==
    [][(entry = "cli" /\ concurrent > 1 /\ mpc' # "spawn")
         => /\ \A i \in DOMAIN wpc' : wpc'[i] = "done"
            /\ wg' = 0 /\ mu' = 0
            /\ mpc # "spawn" => reports' = reports
            /\ suiteReport' # NoReport
                 => suiteReport'.Tests = allReports']_vars

\* a run of several goroutines has ended: one appended its report and the
\* request of another failed
C11_Witness ==
    /\ entry = "cli" /\ concurrent > 1 /\ mpc = "done"
    /\ Len(wpc) >= 2
    /\ Len(allReports) >= 1
    /\ \E id \in DOMAIN outcome : outcome[id].kind = "error"

\* C12: GenerateSuiteReport returns TotalTests = the length of the list,
\* PassedTests = the number of reports whose status is "PASS", FailedTests =
\* TotalTests - PassedTests (all three 0 for the empty list), and the list
\* itself as Tests.
C12_SuiteReportCounts ==
    (entry = "reporter" /\ mpc = "done")
    => /\ rSuite.TotalTests = Len(rReports)
       /\ rSuite.PassedTests
            = Cardinality({k \in DOMAIN rReports : rReports[k].Status = "PASS"})
       /\ rSuite.FailedTests = rSuite.TotalTests - rSuite.PassedTests
       /\ rSuite.PassedTests + rSuite.FailedTests = rSuite.TotalTests
       /\ rReports = <<>>
            => rSuite.TotalTests = 0 /\ rSuite.PassedTests = 0 /\ rSuite.FailedTests = 0
       /\ rSuite.Tests = rReports

\* the report of a list holding a passed report, a failed one and one whose
\* status is neither "PASS" nor "FAIL"
C12_Witness ==
    /\ entry = "reporter" /\ mpc = "done"
    /\ {rReports[k].Status : k \in DOMAIN rReports} = ReportStatuses

\* C13: the status check contributes one warning and no error when the
\* expected status set is empty; no warning and no error when the set is not
\* empty and holds the actual status; no warning and one error, naming the
\* set and the actual status, when the set is not empty and lacks it.
C13_StatusCheck ==
    \A k \in DOMAIN vResults :
        LET statusErrors == ErrorsOfKind(vResults[k], StatusErrorKinds) IN
        /\ vExpected.Status = <<>>
             => /\ Len(vResults[k].Warnings) = 1
                /\ statusErrors = <<>>
        /\ (vExpected.Status # <<>> /\ vResponse.StatusCode \in Range(vExpected.Status))
             => /\ vResults[k].Warnings = <<>>
                /\ statusErrors = <<>>
        /\ (vExpected.Status # <<>> /\ vResponse.StatusCode \notin Range(vExpected.Status))
             => /\ vResults[k].Warnings = <<>>
                /\ statusErrors
                     = << <<"StatusMismatch", vExpected.Status, vResponse.StatusCode>> >>

\* a call returned for a status that is the second member of the expected set
C13_Witness ==
    /\ Len(vResults) >= 1
    /\ Len(vExpected.Status) = 2
    /\ vResponse.StatusCode = vExpected.Status[2]
    /\ vResponse.StatusCode # vExpected.Status[1]

\* C14: the body check applies one mode.  With an exact string set it
\* yields at most one error, an exact-match error, present when the body
\* differs from the string; with no exact string and a regex set it yields
\* at most one error, a regex error; only with neither set do contains and
\* not-contains errors appear; with no body rule at all it yields no error.
C14_BodyModePrecedence ==
    \A k \in DOMAIN vResults :
        LET bodyErrors == ErrorsOfKind(vResults[k], BodyErrorKinds)
            kinds      == {bodyErrors[j][1] : j \in DOMAIN bodyErrors}
            rule       == vExpected.Body
        IN
        /\ (~rule.Nil /\ rule.Exact # <<>>)
             => /\ Len(bodyErrors) <= 1
                /\ kinds \subseteq {"BodyExactMismatch"}
                /\ bodyErrors = <<>> <=> vResponse.Body = rule.Exact
        /\ (~rule.Nil /\ rule.Exact = <<>> /\ rule.Regex # <<>>)
             => /\ Len(bodyErrors) <= 1
                /\ kinds \subseteq {"InvalidRegex", "BodyRegexMismatch"}
        /\ (~rule.Nil /\ rule.Exact = <<>> /\ rule.Regex = <<>>)
             => kinds \subseteq {"BodyShouldContain", "BodyShouldNotContain"}
        /\ (rule.Nil \/ (/\ rule.Exact = <<>> /\ rule.Regex = <<>>
                          /\ rule.Contains = <<>> /\ rule.NotContains = <<>>))
             => bodyErrors = <<>>

\* a call returned for a body equal to the exact string, with a regex that
\* does not match it, a contains entry it lacks and a not-contains entry it has
C14_Witness ==
    /\ Len(vResults) >= 1
    /\ ~vExpected.Body.Nil
    /\ vExpected.Body.Exact = vResponse.Body
    /\ vExpected.Body.Regex # <<>>
    /\ ~RegexMatch(vExpected.Body.Regex, vResponse.Body)
    /\ \E j \in DOMAIN vExpected.Body.Contains :
          ~StrContains(vResponse.Body, vExpected.Body.Contains[j])
    /\ \E j \in DOMAIN vExpected.Body.NotContains :
          StrContains(vResponse.Body, vExpected.Body.NotContains[j])

\* C15: the error list of every result is the errors of the status check,
\* then those of the header check, then those of the body check, and each
\* group is what its check yields on its own for the same inputs, whatever
\* the other two found.
C15_AllChecksRunInOrder ==
    \A k \in DOMAIN vResults :
        LET statusErrors == ErrorsOfKind(vResults[k], StatusErrorKinds)
            headerErrors == ErrorsOfKind(vResults[k], HeaderErrorKinds)
            bodyErrors   == ErrorsOfKind(vResults[k], BodyErrorKinds)
        IN
        /\ vResults[k].Errors = statusErrors \o headerErrors \o bodyErrors
        /\ statusErrors
             = validateStatusCode(vResponse, vExpected, NewValidationResult).Errors
        /\ \E order \in HeaderOrders(vExpected) :
              headerErrors
               = validateHeaders(vResponse, vExpected, order, NewValidationResult).Errors
        /\ bodyErrors = validateBody(vResponse, vExpected, NewValidationResult).Errors

\* a call returned one status error, two header errors and two body errors
C15_Witness ==
    \E k \in DOMAIN vResults :
        /\ Len(ErrorsOfKind(vResults[k], StatusErrorKinds)) = 1
        /\ Len(ErrorsOfKind(vResults[k], HeaderErrorKinds)) = 2
        /\ Len(ErrorsOfKind(vResults[k], BodyErrorKinds)) = 2
        /\ Len(vResults[k].Errors) = 5

\* C16: Validate is deterministic: the calls made with the same response and
\* the same expectation return the same result, with the same errors in the
\* same order and the same warnings in the same order, also when several
\* expected headers fail at once.
C16_ValidateDeterministic ==
    \A j, k \in DOMAIN vResults : vResults[j] = vResults[k]

\* the expected header entries the response fails: the key is missing, or its
\* value does not hold the expected value as a substring
FailingHeaders ==
    {key \in DOMAIN vExpected.Headers :
        \/ key \notin DOMAIN vResponse.Headers
        \/ ~StrContains(vResponse.Headers[key], vExpected.Headers[key])}

\* the error of a failing entry
HeaderErrorOf(key) ==
    IF key \notin DOMAIN vResponse.Headers
    THEN <<"MissingHeader", key>>
    ELSE <<"HeaderMismatch", key, vExpected.Headers[key], vResponse.Headers[key]>>

\* C17: the header check yields exactly one error for each expected entry
\* that fails (a missing-header error when the response lacks the key, a
\* mismatch error when its value does not hold the expected value as a
\* case-sensitive substring) and no other: none for an entry that holds,
\* none for a response header the expectation does not name, none for an
\* empty expected map.
C17_HeaderCheck ==
    \A k \in DOMAIN vResults :
        LET headerErrors == ErrorsOfKind(vResults[k], HeaderErrorKinds) IN
        /\ Len(headerErrors) = Cardinality(FailingHeaders)
        /\ Range(headerErrors) = {HeaderErrorOf(key) : key \in FailingHeaders}
        /\ \A j \in DOMAIN headerErrors : headerErrors[j][2] \in DOMAIN vExpected.Headers
        /\ vExpected.Headers = NoHeaders => headerErrors = <<>>

\* a call returned for two expected entries: one holds as a proper substring
\* of the response value, the other differs from a substring by case only
C17_Witness ==
    /\ Len(vResults) >= 1
    /\ DOMAIN vResponse.Headers = HeaderKeys
    /\ \E held, failed \in DOMAIN vExpected.Headers :
          /\ vExpected.Headers[held] = <<"b">>
          /\ vResponse.Headers[held] # <<"b">>
          /\ vExpected.Headers[failed] = <<"B">>
          /\ ErrorsOfKind(vResults[1], HeaderErrorKinds)
               = << <<"HeaderMismatch", failed, <<"B">>, vResponse.Headers[failed]>> >>

\* the entries of the contains list the body lacks, in list order
MissingContains ==
    SelectSeq(vExpected.Body.Contains, LAMBDA c : ~StrContains(vResponse.Body, c))

\* the entries of the not-contains list the body holds, in list order
PresentNotContains ==
    SelectSeq(vExpected.Body.NotContains, LAMBDA c : StrContains(vResponse.Body, c))

\* C18: with neither an exact string nor a regex set, the body check yields
\* one error for each contains entry the body lacks and one for each
\* not-contains entry it holds: the contains errors first, in list order,
\* then the not-contains errors, in list order.
C18_ContainsCumulative ==
    (/\ ~vExpected.Body.Nil
     /\ vExpected.Body.Exact = <<>>
     /\ vExpected.Body.Regex = <<>>)
    => \A k \in DOMAIN vResults :
          ErrorsOfKind(vResults[k], BodyErrorKinds)
            = [j \in 1..Len(MissingContains) |-> <<"BodyShouldContain", MissingContains[j]>>]
              \o [j \in 1..Len(PresentNotContains) |->
                     <<"BodyShouldNotContain", PresentNotContains[j]>>]

\* a call returned three body errors of that mode: both kinds, and two of one
C18_Witness ==
    /\ ~vExpected.Body.Nil
    /\ vExpected.Body.Exact = <<>>
    /\ vExpected.Body.Regex = <<>>
    /\ \E k \in DOMAIN vResults :
          /\ Len(ErrorsOfKind(vResults[k], {"BodyShouldContain"})) = 2
          /\ Len(ErrorsOfKind(vResults[k], {"BodyShouldNotContain"})) = 1

\* the regex rule is the one in force and its pattern, an unclosed bracket
\* expression, is one regexp rejects
InvalidRegexRule ==
    /\ ~vExpected.Body.Nil
    /\ vExpected.Body.Exact = <<>>
    /\ vExpected.Body.Regex = <<"[">>

\* C19: when the regex rule is in force and its pattern does not compile,
\* the body check yields exactly one error, naming the pattern, whatever the
\* body is; Passed is false; and the warnings and the status and header
\* errors are those of the same call without a body rule.
C19_InvalidRegex ==
    InvalidRegexRule
    => \A k \in DOMAIN vResults :
          /\ ErrorsOfKind(vResults[k], BodyErrorKinds)
               = << <<"InvalidRegex", vExpected.Body.Regex>> >>
          /\ ~vResults[k].Passed
          /\ \E order \in HeaderOrders(vExpected) :
                LET bare == Validate(vResponse, [vExpected EXCEPT !.Body = NilBody], order) IN
                /\ vResults[k].Errors
                     = bare.Errors \o << <<"InvalidRegex", vExpected.Body.Regex>> >>
                /\ vResults[k].Warnings = bare.Warnings

\* a call returned for such a rule, a non-empty body, a contains list, a
\* status outside the expected set and a failing header
C19_Witness ==
    /\ InvalidRegexRule
    /\ Len(vResults) >= 1
    /\ vResponse.Body # <<>>
    /\ vExpected.Body.Contains # <<>>
    /\ Len(ErrorsOfKind(vResults[1], StatusErrorKinds)) = 1
    /\ Len(ErrorsOfKind(vResults[1], HeaderErrorKinds)) >= 1

\* C20: when the three lists handed to ValidateMultiple do not all have the
\* same length, no element is ever validated and nothing is returned: the
\* call panics at its length test; it panics only then; and what it returns
\* has the length of the lists, its i-th element being the result of
\* Validate on the i-th response and the i-th expectation.
C20_ValidateMultiple ==
    entry = "batch"
    => /\ (Len(mResponses) # Len(mExpected) \/ Len(mResponses) # Len(mTestNames)
            \/ Len(mExpected) # Len(mTestNames))
            => mResults = <<>> /\ mpc \in {"vmcheck", "panic"}
       /\ mpc = "panic" => Cardinality({Len(mResponses), Len(mExpected), Len(mTestNames)}) > 1
       /\ mpc = "done"
            => /\ Len(mResults) = Len(mResponses)
               /\ Len(mResults) = Len(mExpected)
               /\ Len(mResults) = Len(mTestNames)
               /\ \A i \in DOMAIN mResults :
                     \E order \in HeaderOrders(mExpected[i]) :
                        mResults[i] = Validate(mResponses[i], mExpected[i], order)

\* a call on lists of two has returned a result that passed followed by one
\* that failed
C20_Witness ==
    /\ entry = "batch" /\ mpc = "done"
    /\ Len(mResults) = 2
    /\ mResults[1].Passed /\ ~mResults[2].Passed

\* C21: GenerateTestReport sets Status to "PASS" exactly when the validation
\* result has Passed = true and to "FAIL" otherwise, whatever its error and
\* warning lists hold, and stores the name, the request, the response, the
\* validation result and the duration it was given.
C21_TestReportStatus ==
    (entry = "testreport" /\ mpc = "done")
    => /\ tReport.Status = "PASS" <=> tArgs.validation.Passed
       /\ tReport.Status = "FAIL" <=> ~tArgs.validation.Passed
       /\ tReport.TestName = tArgs.testName
       /\ tReport.Request = tArgs.request
       /\ tReport.Response = tArgs.response
       /\ tReport.ValidationResult = tArgs.validation
       /\ tReport.Duration = tArgs.duration

\* a report was generated for a validation result with Passed = true and a
\* non-empty error list, and a duration above zero
C21_Witness ==
    /\ entry = "testreport" /\ mpc = "done"
    /\ tArgs.validation.Passed
    /\ tArgs.validation.Errors # <<>>
    /\ tArgs.duration > 0

\* C22: a command line run ends only at the end: while it is not over no
\* exit status exists, whatever has failed so far; and when the status
\* exists every suite has been run, every test's request was started, the
\* suite report has been generated from all reports and printed, and the
\* save has been attempted.
C22_ExitOnlyAtTheEnd ==
    entry = "cli"
    => /\ mpc # "done" => exitCode = -1
       /\ exitCode # -1
            => /\ si > Len(tests)
               /\ \A id \in DOMAIN attempts : attempts[id] = 1
               /\ suiteReport # NoReport
               /\ suiteReport.Tests = allReports
               /\ suitePrinted = suiteReport
               /\ saved \in SaveOutcomes
       /\ suitePrinted # NoReport => suiteReport # NoReport
       /\ saved # "pending" => suitePrinted # NoReport

\* a run of two suites has exited with status 1: a test of the first suite
\* failed, and the save returned an error
C22_Witness ==
    /\ entry = "cli" /\ exitCode = 1
    /\ Len(tests) = 2
    /\ HasFailedReport(allReports, <<1, 1>>)
    /\ saved = "error"

\* runTestsWithContext has returned because its select found the context
\* cancelled
CancellationObserved == entry = "clientctx" /\ runErr = ContextCanceled

\* C23: an iteration that begins with the context cancelled starts no
\* request and ends the run; and once the run has ended that way, the test
\* it had reached and all later ones have had no request started and have
\* no outcome, and nothing changes any more.
C23_NoStartAfterCancellation ==
    [][/\ (entry = "clientctx" /\ mpc = "cselect" /\ ctxDone
            /\ ti <= Len(tests[1].Tests))
            => /\ attempts' = attempts
               /\ mpc' \in {"cselect", "done"}
       /\ CancellationObserved'
            => /\ mpc' = "done"
               /\ \A k \in DOMAIN tests[1].Tests :
                     k >= ti' => /\ attempts'[<<1, k>>] = 0
                                 /\ outcome'[<<1, k>>] = NoOutcome
       /\ CancellationObserved => vars' = vars]_vars

\* the run ended on a cancellation seen before its second test, the first
\* having got its response
C23_Witness ==
    /\ CancellationObserved
    /\ ti = 2 /\ Len(tests[1].Tests) >= 3
    /\ outcome[<<1, 1>>].kind = "response"

\* C24: when the run ends on a cancellation, the results of the tests that
\* completed before it are part of what the run returns.
C24_CompletedOutcomesReturned ==
    (CancellationObserved /\ testResults # <<>>)
    => /\ suiteResult # NoReport
       /\ suiteResult.TestResults = testResults

\* the base address of the suite a test was written in
OwnBaseURL(id) == SuiteOf(NameOfId(id)[2], MinTests).BaseURL

\* the entries of rs follow the input order of the suites of their tests
InSuiteOrder(rs) ==
    \A a, b \in DOMAIN rs : a < b => rs[a].TestName[2] <= rs[b].TestName[2]

\* C25: with several suites in one invocation, the combined list of results
\* follows the input order of the suites and of their tests, and the request
\* of every test is sent to the base address of the suite the test belongs
\* to.
C25_SuitesConcatenatedOwnTarget ==
    /\ InSuiteOrder(testResults)
    /\ InSuiteOrder(allReports)
    /\ \A id \in DOMAIN target :
          target[id] # NoReport => target[id] = OwnBaseURL(id)

\* how many times r occurs in rs
CountIn(rs, r) == Cardinality({k \in DOMAIN rs : rs[k] = r})

\* the same reports, each the same number of times
SameReports(rs, qs) ==
    \A r \in Range(rs) \cup Range(qs) : CountIn(rs, r) = CountIn(qs, r)

\* every goroutine of the running executeTestsConcurrently has returned
AllWorkersDone == \A i \in DOMAIN wpc : wpc[i] = "done"

\* C26: in both modes each report is printed once and held once: when a
\* suite's runner is about to return or has returned, the printed reports
\* are, as a multiset, the reports gathered so far, each occurring once; in
\* the sequential loop that holds after every test; and when the suite
\* report exists, its tests are the printed reports.
C26_PrintedOnceAndHeld ==
    entry = "cli"
    => /\ (mpc \in {"seq", "seqreq"} \/ (mpc = "spawn" /\ AllWorkersDone
                                          /\ ti > Len(tests[si].Tests)))
            => SameReports(printed, allReports \o reports)
       /\ mpc \notin {"seq", "seqreq", "spawn"} => SameReports(printed, allReports)
       /\ \A r \in Range(printed) : CountIn(printed, r) = 1
       /\ suiteReport # NoReport => SameReports(printed, suiteReport.Tests)

\* the request of the test a report carries the name of
OwnRequest(report) ==
    tests[report.TestName[2]].Tests[report.TestName[3]].Request

\* C27: every report of the running suite, of the gathered list and of the
\* suite report holds the request of the test whose name it carries, also
\* after later tests of the suite have been processed.
C27_ReportCarriesOwnRequest ==
    entry = "cli"
    => /\ \A k \in DOMAIN reports : reports[k].Request = OwnRequest(reports[k])
       /\ \A k \in DOMAIN allReports : allReports[k].Request = OwnRequest(allReports[k])
       /\ suiteReport # NoReport
            => \A k \in DOMAIN suiteReport.Tests :
                  suiteReport.Tests[k].Request = OwnRequest(suiteReport.Tests[k])

\* C28: under LiveSpec every call of executeTestsConcurrently returns, and
\* when it has returned every goroutine has got its slot and started its
\* request, every goroutine has finished, whether its request failed or
\* not, and no token is left in the channel.
C28_ConcurrentTerminates ==
    (entry = "cli" /\ mpc = "spawn")
      ~> /\ mpc = "loop"
         /\ si = 2
         /\ AllWorkersDone
         /\ \A i \in DOMAIN wpc : attempts[<<1, i>>] = 1
         /\ sem = 0 /\ wg = 0 /\ mu = 0

\* executeTestsConcurrently has returned from a suite with more tests than
\* slots, in which one request failed and one returned a response
C28_Witness ==
    /\ entry = "cli" /\ concurrent > 1
    /\ mpc = "loop" /\ si = 2
    /\ Len(tests[1].Tests) > concurrent
    /\ AllWorkersDone /\ sem = 0
    /\ \E i, j \in DOMAIN wpc :
          /\ outcome[<<1, i>>].kind = "error"
          /\ outcome[<<1, j>>].kind = "response"

\* requests of the whole invocation that were started and have not returned
InFlightOverall ==
    Cardinality({id \in DOMAIN outcome : attempts[id] > 0 /\ outcome[id] = NoOutcome})

\* C29: in a command line run no request of a later suite is started before
\* every test of every earlier suite was started and has returned, only
\* requests of the current suite are in flight, and their number over the
\* whole invocation is at most the --concurrent value, 1 in sequential mode.
C29_SuitesOneAfterAnother ==
    entry = "cli"
    => /\ \A a, b \in DOMAIN attempts :
             (a[1] < b[1] /\ attempts[b] > 0)
               => (attempts[a] > 0 /\ outcome[a] # NoOutcome)
       /\ \A id \in DOMAIN attempts :
             (attempts[id] > 0 /\ outcome[id] = NoOutcome) => id[1] = si
       /\ InFlightOverall = InFlight
       /\ InFlightOverall <= (IF UseSequential(concurrent) THEN 1 ELSE concurrent)

\* the second suite of a bounded-parallel run fills its gate after a request
\* of the first suite failed
C29_Witness ==
    /\ entry = "cli" /\ concurrent > 1
    /\ si = 2
    /\ InFlightOverall = concurrent
    /\ \A id \in DOMAIN outcome : id[1] = 1 => outcome[id].kind = "error"

\* C30: a command line run ends with exit status 0 exactly when the request
\* of every test of every suite returned a response and every report passed,
\* and with a non-zero status otherwise.
C30_ExitReflectsEveryTest ==
    (entry = "cli" /\ mpc = "done")
    => /\ exitCode = 0
            <=> /\ \A id \in DOMAIN outcome : outcome[id].kind = "response"
                /\ \A k \in DOMAIN allReports : allReports[k].Status = "PASS"
       /\ exitCode # 0 => suitePrinted # NoReport

====
